---- MODULE Spec2Model ----
(***************************************************************************)
(* rocHPCG: construction of the coarse multigrid level                     *)
(* (GenerateCoarseProblem, kernel_f2c_operator) and the prolongation       *)
(* operator (ComputeProlongation, kernel_prolongation).                    *)
(*                                                                         *)
(* local_int_t is a w-bit two's complement integer; w is a build choice    *)
(* ("int" or "long long", GenerateCoarseProblem.cpp:118) and is scaled     *)
(* down here.  Arithmetic on local_int_t wraps modulo 2^w (what the        *)
(* builds produce for the signed overflow).  global_int_t holds every      *)
(* product of the dimensions used here exactly.  The asserts are active.   *)
(* Doubles are modelled by integers (all values are small integers).       *)
(***************************************************************************)
EXTENDS Integers, Sequences, FiniteSets, TLC

\* ------------------------------------------------------------ bounds
MaxDim == 6
MaxFineCells == 48
MaxOverflowCells == 72
WideWidth == 7
NarrowWidth == 3
OtherPartNz == 3
MaxPz == 1

\* ------------------------------------------------- program constants
FillBlockDim == 2
ProlongBlockDim == 1024
Unmapped == -1

VARIABLES
    w,                  \* width of local_int_t in bits
    nxf, nyf, nzf,      \* Af.geom->nx, ny, nz
    pz, partz_nz,       \* Af.geom->pz, Af.geom->partz_nz[0..1] (here 1..2)
    pc,                 \* position of the host thread
    dev,                \* "ok" or "fault": state of the device
    oob,                \* TRUE once a kernel accessed memory outside an array
    nxc, nyc, nzc, localNumberOfRows,
    allocated,          \* names of the objects allocated so far
    f2cOperator, c2fOperator,
    fillPending,        \* threads of kernel_f2c_operator that have not run yet
    zlc, zuc, geomc,
    rcLength,           \* Af.mgData->rc->localLength
    AfAc, AfMgData,     \* Af.Ac and Af.mgData are set
    perm_fine, perm_coarse, xc, xf, xf0,
    proPending,         \* threads of kernel_prolongation that have not read yet
    proRegs             \* threads between their read and their write of fine[]

vars == <<w, nxf, nyf, nzf, pz, partz_nz, pc, dev, oob, nxc, nyc, nzc,
          localNumberOfRows, allocated, f2cOperator, c2fOperator, fillPending,
          zlc, zuc, geomc, rcLength, AfAc, AfMgData, perm_fine, perm_coarse,
          xc, xf, xf0, proPending, proRegs>>

\* ------------------------------------------------------ integer types

\* Conversion of an integer to local_int_t of width wd (two's complement).
ToLocal(wd, v) ==
    LET m == 2 ^ wd
        r == v % m
    IN  IF r >= 2 ^ (wd - 1) THEN r - m ELSE r

\* The value fits local_int_t of width wd.
Representable(wd, v) == ToLocal(wd, v) = v

\* C integer division (truncation towards zero), b > 0.
CDiv(a, b) == IF a >= 0 THEN a \div b ELSE -((-a) \div b)

\* An array of n elements, all v, indexed from 0.
Array(n, v) == [k \in 0 .. (n - 1) |-> v]

NoArray == Array(0, 0)

\* hipMemset with 0 in place of -1.
MemsetZero(wd) == 0

\* hipMemset(p, -1, bytes): every byte 0xFF, so every bit of every element set.
MemsetAllOnes(wd) == ToLocal(wd, 2 ^ wd - 1)

\* Contents of device memory that was allocated and never written.
GarbageValues == {0, Unmapped}

\* ------------------------------------------- kernel_f2c_operator

\* n / 2 blocks: the round-up forgotten.
FillBlocksRoundDown(n) == CDiv(n, 2)

\* f2c_blocks: (n - 1) / 2 + 1 blocks along one axis.
FillBlocks(n) == CDiv(n - 1, 2) + 1

\* Threads along one axis: blocks * blockDim; a launch without blocks runs nothing.
FillThreadsAxis(n) == IF FillBlocks(n) > 0 THEN FillBlocks(n) * FillBlockDim ELSE 0

\* blockIdx * blockDim + threadIdx of every launched thread, as <<ixc, iyc, izc>>.
FillThreads ==
    { <<tx, ty, tz>> : tx \in 0 .. (FillThreadsAxis(nxc) - 1),
                       ty \in 0 .. (FillThreadsAxis(nyc) - 1),
                       tz \in 0 .. (FillThreadsAxis(nzc) - 1) }

\* "Do not run out of bounds"
FillOutOfRange(ixc, iyc, izc) == izc >= nzc \/ iyc >= nyc \/ ixc >= nxc

\* i >> 1 in place of i << 1.
ShiftRight1(i) == ToLocal(w, i \div 2)

\* i << 1 in local_int_t
ShiftLeft1(i) == ToLocal(w, 2 * i)

\* local_int_t currentCoarseRow = izc * nxc * nyc + iyc * nxc + ixc;
CurrentCoarseRow(ixc, iyc, izc) == ToLocal(w, izc * nxc * nyc + iyc * nxc + ixc)

\* currentFineRow with the stride nxf of the y term left out.
CurrentFineRowNoYStride(ixc, iyc, izc) ==
    ToLocal(w, ShiftLeft1(izc) * nxf * nyf + ShiftLeft1(iyc) + ShiftLeft1(ixc))

\* currentFineRow with the stride nxf in place of nxf * nyf in the z term.
CurrentFineRowZStrideNx(ixc, iyc, izc) ==
    ToLocal(w, ShiftLeft1(izc) * nxf + ShiftLeft1(iyc) * nxf + ShiftLeft1(ixc))

\* local_int_t currentFineRow = izf * nxf * nyf + iyf * nxf + ixf;
\* (computed in global_int_t, then converted to local_int_t)
CurrentFineRow(ixc, iyc, izc) ==
    LET ixf == ShiftLeft1(ixc)
        iyf == ShiftLeft1(iyc)
        izf == ShiftLeft1(izc)
    IN  ToLocal(w, izf * nxf * nyf + iyf * nxf + ixf)

\* The value thread u stores into c2fOperator[currentFineRow].
C2fStored(cr, fr) == cr

\* The two stores of thread u on the arrays a = [f2c, c2f]; a store outside
\* its array leaves both arrays as they are and is reported in "out".
FillEffect(a, u) ==
    LET cr == CurrentCoarseRow(u[1], u[2], u[3])
        fr == CurrentFineRow(u[1], u[2], u[3])
        inF == cr \in DOMAIN a.f2c
        inC == fr \in DOMAIN a.c2f
    IN  [f2c |-> IF inF THEN [a.f2c EXCEPT ![cr] = fr] ELSE a.f2c,
         c2f |-> IF inC THEN [a.c2f EXCEPT ![fr] = C2fStored(cr, fr)] ELSE a.c2f,
         out |-> ~(inF /\ inC)]

\* One thread of kernel_f2c_operator runs.  An out-of-bounds store either
\* lands outside the two arrays or stops the device.
FillUnit ==
    /\ dev = "ok"
    /\ \E u \in fillPending :
         LET e == FillEffect([f2c |-> f2cOperator, c2f |-> c2fOperator], u)
         IN  IF ~e.out
             THEN /\ f2cOperator' = e.f2c
                  /\ c2fOperator' = e.c2f
                  /\ fillPending' = fillPending \ {u}
                  /\ UNCHANGED <<oob, dev>>
             ELSE \E outcome \in {"stray", "fault"} :
                  /\ oob' = TRUE
                  /\ IF outcome = "stray"
                     THEN /\ f2cOperator' = e.f2c
                          /\ c2fOperator' = e.c2f
                          /\ fillPending' = fillPending \ {u}
                          /\ dev' = dev
                     ELSE /\ dev' = "fault"
                          /\ UNCHANGED <<f2cOperator, c2fOperator, fillPending>>
    /\ UNCHANGED <<w, nxf, nyf, nzf, pz, partz_nz, pc, nxc, nyc, nzc,
                   localNumberOfRows, allocated, zlc, zuc, geomc, rcLength,
                   AfAc, AfMgData, perm_fine, perm_coarse, xc, xf, xf0,
                   proPending, proRegs>>

\* ------------------------------------------- GenerateCoarseProblem

\* The assert on nzf left out.
DimsEvenXY == nxf % 2 = 0 /\ nyf % 2 = 0

\* assert(nxf % 2 == 0); assert(nyf % 2 == 0); assert(nzf % 2 == 0);
DimsEven == nxf % 2 = 0 /\ nyf % 2 = 0 /\ nzf % 2 = 0

\* local_int_t nxc = nxf / 2;
HalfDim(n) == ToLocal(w, CDiv(n, 2))

\* local_int_t localNumberOfRows = nxc * nyc * nzc;
RowProduct(x, y, z) == ToLocal(w, x * y * z)

\* assert(localNumberOfRows >= 0)
RowCheckNonNegative(rows) == rows >= 0

\* assert(localNumberOfRows > 0);
RowCheck(rows) == rows > 0

\* Lines 101-120: the dimension asserts, the coarse dimensions, the row count
\* and its assert.  A failed assert aborts the process.
Validate ==
    /\ pc = "validate"
    /\ IF ~DimsEven
       THEN /\ pc' = "aborted"
            /\ UNCHANGED <<nxc, nyc, nzc, localNumberOfRows>>
       ELSE /\ nxc' = HalfDim(nxf)
            /\ nyc' = HalfDim(nyf)
            /\ nzc' = HalfDim(nzf)
            /\ localNumberOfRows' = RowProduct(nxc', nyc', nzc')
            /\ pc' = IF RowCheck(localNumberOfRows') THEN "allocate" ELSE "aborted"
    /\ UNCHANGED <<w, nxf, nyf, nzf, pz, partz_nz, dev, oob, allocated,
                   f2cOperator, c2fOperator, fillPending, zlc, zuc, geomc,
                   rcLength, AfAc, AfMgData, perm_fine, perm_coarse, xc, xf,
                   xf0, proPending, proRegs>>

\* Lines 126-129: the two deviceMalloc and the hipMemset of d_c2fOperator.
\* d_f2cOperator is not initialised.
Allocate ==
    /\ pc = "allocate"
    /\ \E g \in GarbageValues : f2cOperator' = Array(localNumberOfRows, g)
    /\ c2fOperator' = Array(nxf * nyf * nzf, MemsetAllOnes(w))
    /\ allocated' = allocated \cup {"d_f2cOperator", "d_c2fOperator"}
    /\ pc' = "launch"
    /\ UNCHANGED <<w, nxf, nyf, nzf, pz, partz_nz, dev, oob, nxc, nyc, nzc,
                   localNumberOfRows, fillPending, zlc, zuc, geomc, rcLength,
                   AfAc, AfMgData, perm_fine, perm_coarse, xc, xf, xf0,
                   proPending, proRegs>>

\* Lines 131-143: the launch of kernel_f2c_operator.  A thread that fails the
\* bounds test returns before it touches memory; the others are left to run.
LaunchFill ==
    /\ pc = "launch"
    /\ fillPending' = {u \in FillThreads : ~FillOutOfRange(u[1], u[2], u[3])}
    /\ pc' = "build"
    /\ UNCHANGED <<w, nxf, nyf, nzf, pz, partz_nz, dev, oob, nxc, nyc, nzc,
                   localNumberOfRows, allocated, f2cOperator, c2fOperator,
                   zlc, zuc, geomc, rcLength, AfAc, AfMgData, perm_fine,
                   perm_coarse, xc, xf, xf0, proPending, proRegs>>

\* The test pz >= 0 in place of pz > 0.
CoarsePartzAlways(k) == IF pz >= 0 THEN ToLocal(w, CDiv(partz_nz[k], 2)) ELSE 0

\* zlc / zuc: partz_nz[k] / 2 when pz > 0, else 0 (k = 1 lower, 2 upper block).
CoarsePartz(k) == IF pz > 0 THEN ToLocal(w, CDiv(partz_nz[k], 2)) ELSE 0

\* Lines 146-182: new Geometry, zlc, zuc, GenerateGeometry(..., geomc); the
\* coarse matrix (its row count is that of geomc) and the vectors rc, xc, Axf;
\* Af.Ac = Ac; new MGData; InitializeMGData; Af.mgData = mgData; return.
\* The host does not wait for kernel_f2c_operator.
BuildCoarseLevel ==
    /\ pc = "build"
    /\ zlc' = CoarsePartz(1)
    /\ zuc' = CoarsePartz(2)
    /\ geomc' = [pz |-> pz, zl |-> zlc', zu |-> zuc',
                 nx |-> nxc, ny |-> nyc, nz |-> nzc]
    /\ rcLength' = RowProduct(geomc'.nx, geomc'.ny, geomc'.nz)
    /\ allocated' = allocated \cup {"geomc", "Ac", "rc", "xc", "Axf", "mgData"}
    /\ AfAc' = TRUE
    /\ AfMgData' = TRUE
    /\ pc' = "returned"
    /\ UNCHANGED <<w, nxf, nyf, nzf, pz, partz_nz, dev, oob, nxc, nyc, nzc,
                   localNumberOfRows, f2cOperator, c2fOperator, fillPending,
                   perm_fine, perm_coarse, xc, xf, xf0, proPending, proRegs>>

\* ------------------------------------------- kernel_prolongation

\* dim3((localLength - 1) / 1024 + 1) blocks of dim3(1024) threads.
ProlongThreads(len) ==
    IF CDiv(len - 1, ProlongBlockDim) + 1 > 0
    THEN (CDiv(len - 1, ProlongBlockDim) + 1) * ProlongBlockDim
    ELSE 0

\* if(idx_coarse > size) return;
ProlongOutOfRangeOffByOne(idx_coarse, size) == idx_coarse > size

\* if(idx_coarse >= size) return;
ProlongOutOfRange(idx_coarse, size) == idx_coarse >= size

\* fine[...] = coarse[...]
ProlongOverwrite(old, add) == add

\* fine[...] += coarse[...]: the value written back.
ProlongUpdate(old, add) == old + add

\* The reads of thread i: f2cOperator[i], perm_fine[idx_fine], perm_coarse[i],
\* coarse[...] and fine[...].  ok is FALSE when one of them is outside its array.
ProlongAccess(fine, i) ==
    LET okF   == i \in DOMAIN f2cOperator
        idx   == IF okF THEN f2cOperator[i] ELSE 0
        okP   == okF /\ idx \in DOMAIN perm_fine
        pos   == IF okP THEN perm_fine[idx] ELSE 0
        okQ   == i \in DOMAIN perm_coarse
        q     == IF okQ THEN perm_coarse[i] ELSE 0
        okAll == okP /\ okQ /\ q \in DOMAIN xc /\ pos \in DOMAIN fine
    IN  [ok  |-> okAll,
         pos |-> pos,
         val |-> IF okAll THEN ProlongUpdate(fine[pos], xc[q]) ELSE 0]

\* A permutation of 0 .. n-1: the identity, the reversal or a rotation.
PermOf(kind, n) ==
    [k \in 0 .. (n - 1) |->
        CASE kind = "id"  -> k
          [] kind = "rev" -> n - 1 - k
          [] kind = "rot" -> (k + 1) % n]

\* The coarse correction xc (n values) of an input variant.
CoarseInput(variant, n) ==
    [k \in 0 .. (n - 1) |-> IF variant = "unit" THEN 1 ELSE k + 1]

\* The fine vector xf (n values) of an input variant.
FineInput(variant, n) ==
    [k \in 0 .. (n - 1) |-> IF variant = "unit" THEN 0 ELSE k % 3]

\* ComputeProlongation: the launch of kernel_prolongation with
\* size = Af.mgData->rc->localLength, Af.perm and Af.Ac->perm; returns 0.
\* A thread that fails the bounds test returns before it touches memory.
ComputeProlongation ==
    /\ pc = "returned"
    /\ \E kinds \in {<<"id", "id">>, <<"rev", "rot">>}, variant \in {"unit", "ramp"} :
         /\ perm_fine' = PermOf(kinds[1], nxf * nyf * nzf)
         /\ perm_coarse' = PermOf(kinds[2], rcLength)
         /\ xc' = CoarseInput(variant, rcLength)
         /\ xf' = FineInput(variant, nxf * nyf * nzf)
         /\ xf0' = xf'
    /\ proPending' = {i \in 0 .. (ProlongThreads(rcLength) - 1) :
                        ~ProlongOutOfRange(i, rcLength)}
    /\ pc' = "prolonged"
    /\ UNCHANGED <<w, nxf, nyf, nzf, pz, partz_nz, dev, oob, nxc, nyc, nzc,
                   localNumberOfRows, allocated, f2cOperator, c2fOperator,
                   fillPending, zlc, zuc, geomc, rcLength, AfAc, AfMgData,
                   proRegs>>

\* Thread i reads its operands and fine[pos] (line 53 and the load of line 55).
\* The kernel runs after kernel_f2c_operator (same stream).
ProlongRead ==
    /\ dev = "ok"
    /\ fillPending = {}
    /\ \E i \in proPending :
         LET a == ProlongAccess(xf, i)
         IN  IF a.ok
             THEN /\ proRegs' = [j \in DOMAIN proRegs \cup {i} |->
                                   IF j = i THEN [pos |-> a.pos, val |-> a.val]
                                   ELSE proRegs[j]]
                  /\ proPending' = proPending \ {i}
                  /\ UNCHANGED <<oob, dev>>
             ELSE \E outcome \in {"stray", "fault"} :
                  /\ oob' = TRUE
                  /\ proRegs' = proRegs
                  /\ IF outcome = "stray"
                     THEN proPending' = proPending \ {i} /\ dev' = dev
                     ELSE proPending' = proPending /\ dev' = "fault"
    /\ UNCHANGED <<w, nxf, nyf, nzf, pz, partz_nz, pc, nxc, nyc, nzc,
                   localNumberOfRows, allocated, f2cOperator, c2fOperator,
                   fillPending, zlc, zuc, geomc, rcLength, AfAc, AfMgData,
                   perm_fine, perm_coarse, xc, xf, xf0>>

\* Thread i stores the sum into fine[pos] (the store of line 55).
ProlongWrite ==
    /\ dev = "ok"
    /\ \E i \in DOMAIN proRegs :
         /\ xf' = [xf EXCEPT ![proRegs[i].pos] = proRegs[i].val]
         /\ proRegs' = [j \in DOMAIN proRegs \ {i} |-> proRegs[j]]
    /\ UNCHANGED <<w, nxf, nyf, nzf, pz, partz_nz, pc, dev, oob, nxc, nyc, nzc,
                   localNumberOfRows, allocated, f2cOperator, c2fOperator,
                   fillPending, zlc, zuc, geomc, rcLength, AfAc, AfMgData,
                   perm_fine, perm_coarse, xc, xf0, proPending>>

\* ------------------------------------------------- specifications

\* The fine level handed to GenerateCoarseProblem: its dimensions, its
\* z partition (the process is in the lower or in the upper block, or the
\* z axis is not partitioned), nothing built yet.
InitLevel(wd, maxCells) ==
    /\ w = wd
    /\ nxf \in 1 .. MaxDim
    /\ nyf \in 1 .. MaxDim
    /\ nzf \in 1 .. MaxDim
    /\ nxf * nyf * nzf <= maxCells
    /\ pz \in 0 .. MaxPz
    /\ partz_nz \in
         IF pz = 0 THEN {<<nzf, nzf>>}
         ELSE {<<nzf, OtherPartNz>>, <<OtherPartNz, nzf>>}
    /\ pc = "validate"
    /\ dev = "ok"
    /\ oob = FALSE
    /\ nxc = 0 /\ nyc = 0 /\ nzc = 0 /\ localNumberOfRows = 0
    /\ allocated = {}
    /\ f2cOperator = NoArray /\ c2fOperator = NoArray
    /\ fillPending = {}
    /\ zlc = 0 /\ zuc = 0
    /\ geomc = [pz |-> 0, zl |-> 0, zu |-> 0, nx |-> 0, ny |-> 0, nz |-> 0]
    /\ rcLength = 0
    /\ AfAc = FALSE /\ AfMgData = FALSE
    /\ perm_fine = NoArray /\ perm_coarse = NoArray
    /\ xc = NoArray /\ xf = NoArray /\ xf0 = NoArray
    /\ proPending = {}
    /\ proRegs = NoArray

\* local_int_t wide enough for the row count of the fine level.
Init ==
    /\ InitLevel(WideWidth, MaxFineCells)
    /\ Representable(w, nxf * nyf * nzf)

\* local_int_t of either width, the fine level of any size.
InitAnyWidth ==
    \/ InitLevel(WideWidth, MaxFineCells)
    \/ InitLevel(NarrowWidth, MaxOverflowCells)

Next ==
    \/ Validate
    \/ Allocate
    \/ LaunchFill
    \/ FillUnit
    \/ BuildCoarseLevel
    \/ ComputeProlongation
    \/ ProlongRead
    \/ ProlongWrite

Spec == Init /\ [][Next]_vars

SpecAnyWidth == InitAnyWidth /\ [][Next]_vars

\* ------------------------------------------------------- claims

\* Number of points of the fine grid and of cells of the coarse grid (exact).
FineCells == nxf * nyf * nzf

CoarseCells == nxc * nyc * nzc

CoarseRowIndices == 0 .. (CoarseCells - 1)

AnyDimOdd == nxf % 2 = 1 \/ nyf % 2 = 1 \/ nzf % 2 = 1

\* GenerateCoarseProblem has returned and its kernel has run to the end.
FillCompleted == pc \in {"returned", "prolonged"} /\ fillPending = {} /\ dev = "ok"

\* C1: after GenerateCoarseProblem completes, every coarse row index i in
\* [0, nxc*nyc*nzc) round-trips: c2fOperator[f2cOperator[i]] = i.
C1_RoundTrip ==
    FillCompleted =>
        \A i \in CoarseRowIndices :
            /\ i \in DOMAIN f2cOperator
            /\ f2cOperator[i] \in DOMAIN c2fOperator
            /\ c2fOperator[f2cOperator[i]] = i

C1_Witness ==
    /\ FillCompleted
    /\ CoarseCells = 6
    /\ c2fOperator[f2cOperator[5]] = 5
    /\ f2cOperator[5] # 5

\* C2: after GenerateCoarseProblem completes, f2cOperator is injective on the
\* coarse row indices, so its values are exactly coarse-row-count many.
C2_Injective ==
    FillCompleted =>
        /\ CoarseRowIndices \subseteq DOMAIN f2cOperator
        /\ \A i, j \in CoarseRowIndices : i # j => f2cOperator[i] # f2cOperator[j]
        /\ Cardinality({f2cOperator[i] : i \in CoarseRowIndices}) = CoarseCells

C2_Witness ==
    /\ FillCompleted
    /\ nxc = 3 /\ nyc = 2 /\ nzc = 1
    /\ Cardinality({f2cOperator[i] : i \in CoarseRowIndices}) = 6

\* C3: after GenerateCoarseProblem completes, every c2fOperator entry at a
\* fine index that is no f2cOperator[i] still holds the sentinel -1; the fill
\* precedes the kernel's stores, and the kernel stores into c2fOperator only
\* at the images of f2cOperator.
C3_SentinelKept ==
    /\ FillCompleted =>
         \A k \in DOMAIN c2fOperator :
             k \notin {f2cOperator[i] : i \in DOMAIN f2cOperator}
                 => c2fOperator[k] = Unmapped
    /\ pc \in {"launch", "build", "returned", "prolonged"} =>
         \A k \in DOMAIN c2fOperator :
             \/ c2fOperator[k] = Unmapped
             \/ /\ c2fOperator[k] \in DOMAIN f2cOperator
                /\ f2cOperator[c2fOperator[k]] = k

C3_Witness ==
    /\ FillCompleted
    /\ CoarseCells = 4
    /\ Cardinality({k \in DOMAIN c2fOperator : c2fOperator[k] = Unmapped}) = FineCells - 4
    /\ Cardinality({k \in DOMAIN c2fOperator : c2fOperator[k] # Unmapped}) = 4

\* The cells of the coarse grid, as <<x, y, z>>.
CoarseCellSet == (0 .. (nxc - 1)) \X (0 .. (nyc - 1)) \X (0 .. (nzc - 1))

\* Position of a cell in the z-major, then y, then x order.
CellKey(u) == (u[3] * (MaxDim + 1) + u[2]) * (MaxDim + 1) + u[1]

\* The arrays after the threads of S ran one after the other in CellKey order.
RECURSIVE FillInOrder(_, _)
FillInOrder(a, S) ==
    IF S = {} THEN a
    ELSE LET u == CHOOSE x \in S : \A y \in S : CellKey(x) <= CellKey(y)
         IN  FillInOrder(FillEffect(a, u), S \ {u})

\* C8: each coarse cell is handled by exactly one thread of the fill kernel,
\* no two threads store into the same f2cOperator slot or the same
\* c2fOperator slot, and under every order of the threads the arrays end as
\* the same function of the fine dimensions.
C8_FillDeterministic ==
    /\ pc \in {"build", "returned", "prolonged"} =>
         /\ {u \in FillThreads : ~FillOutOfRange(u[1], u[2], u[3])} = CoarseCellSet
         /\ fillPending \subseteq CoarseCellSet
         /\ \A u, v \in CoarseCellSet :
              u # v =>
                /\ CurrentCoarseRow(u[1], u[2], u[3]) # CurrentCoarseRow(v[1], v[2], v[3])
                /\ CurrentFineRow(u[1], u[2], u[3]) # CurrentFineRow(v[1], v[2], v[3])
    /\ FillCompleted =>
         LET ref == FillInOrder([f2c |-> Array(localNumberOfRows, 0),
                                 c2f |-> Array(FineCells, Unmapped)],
                                CoarseCellSet)
         IN  f2cOperator = ref.f2c /\ c2fOperator = ref.c2f

C8_Witness ==
    /\ pc = "build"
    /\ CoarseCells = 6
    /\ Cardinality(fillPending) = 3
    /\ <<0, 0, 0>> \in fillPending
    /\ <<nxc - 1, nyc - 1, nzc - 1>> \notin fillPending

\* a is a permutation of 0 .. n-1.
IsPermutation(a, n) ==
    /\ DOMAIN a = 0 .. (n - 1)
    /\ {a[k] : k \in DOMAIN a} = 0 .. (n - 1)

\* ComputeProlongation has been applied once and its kernel has run to the end.
ProlongCompleted ==
    /\ pc = "prolonged"
    /\ fillPending = {}
    /\ proPending = {}
    /\ DOMAIN proRegs = {}
    /\ dev = "ok"

\* The sum of coarse[perm_coarse[i]] over the coarse rows i of S.
RECURSIVE CoarseSum(_)
CoarseSum(S) ==
    IF S = {} THEN 0
    ELSE LET i == CHOOSE x \in S : TRUE
         IN  xc[perm_coarse[i]] + CoarseSum(S \ {i})

\* C4: one application of ComputeProlongation (perm_fine and perm_coarse
\* permutations, size the coarse row count) adds coarse[perm_coarse[i]] into
\* fine[perm_fine[f2cOperator[i]]] for every coarse row i and leaves the other
\* positions unchanged; with coarse all 1 and fine all 0, exactly
\* coarse-row-count positions are 1 afterwards and the others are 0.
C4_Accumulates ==
    ( /\ ProlongCompleted
      /\ IsPermutation(perm_fine, FineCells)
      /\ IsPermutation(perm_coarse, CoarseCells)
      /\ rcLength = CoarseCells ) =>
        /\ DOMAIN xf = DOMAIN xf0
        /\ \A p \in DOMAIN xf :
             xf[p] = xf0[p]
                     + CoarseSum({i \in CoarseRowIndices : perm_fine[f2cOperator[i]] = p})
        /\ ( (\A k \in DOMAIN xc : xc[k] = 1) /\ (\A p \in DOMAIN xf0 : xf0[p] = 0) ) =>
             /\ Cardinality({p \in DOMAIN xf : xf[p] = 1}) = CoarseCells
             /\ \A p \in DOMAIN xf : xf[p] \in {0, 1}

C4_Witness ==
    /\ ProlongCompleted
    /\ CoarseCells = 6
    /\ perm_fine[0] # 0
    /\ \A k \in DOMAIN xc : xc[k] = 1
    /\ Cardinality({p \in DOMAIN xf : xf[p] = 1}) = 6
    /\ Cardinality({p \in DOMAIN xf : xf[p] = 0}) = FineCells - 6

\* The fine vector after the threads 0 .. n-1 ran one after the other.
RECURSIVE ProlongInOrder(_, _, _)
ProlongInOrder(fine, i, n) ==
    IF i >= n THEN fine
    ELSE LET a == ProlongAccess(fine, i)
         IN  ProlongInOrder(IF a.ok THEN [fine EXCEPT ![a.pos] = a.val] ELSE fine,
                            i + 1, n)

\* C5: in the prolongation kernel no two distinct threads read-modify-write
\* the same position of the fine vector, so under every interleaving of their
\* reads and writes the fine vector ends the same.  (The kernel runs once
\* the fill kernel has ended.)
C5_NoRace ==
    ( pc = "prolonged" /\ fillPending = {} ) =>
        /\ \A i, j \in 0 .. (rcLength - 1) :
             i # j => perm_fine[f2cOperator[i]] # perm_fine[f2cOperator[j]]
        /\ \A i, j \in DOMAIN proRegs : i # j => proRegs[i].pos # proRegs[j].pos
        /\ \A i \in DOMAIN proRegs : xf[proRegs[i].pos] = xf0[proRegs[i].pos]
        /\ ProlongCompleted => xf = ProlongInOrder(xf0, 0, rcLength)

C5_Witness ==
    /\ pc = "prolonged"
    /\ rcLength = 6
    /\ Cardinality(DOMAIN proRegs) = 3
    /\ Cardinality(proPending) = 1
    /\ xf # xf0

\* C6: if a fine dimension is odd, GenerateCoarseProblem fails before any
\* allocation: no mapping array, geometry, coarse matrix or vector exists and
\* the fine level gains neither a coarse level nor transfer data.
C6_OddAbortsFirst ==
    AnyDimOdd =>
        /\ pc \in {"validate", "aborted"}
        /\ allocated = {}
        /\ f2cOperator = NoArray /\ c2fOperator = NoArray
        /\ fillPending = {}
        /\ ~AfAc /\ ~AfMgData

C6_Witness ==
    /\ pc = "aborted"
    /\ nxf % 2 = 1 /\ nyf % 2 = 0 /\ nzf % 2 = 0
    /\ allocated = {}

\* The coarse row count as an exact integer.
TrueCoarseRows == (nxf \div 2) * (nyf \div 2) * (nzf \div 2)

\* C7 as stated: whenever the true product (nxf/2)*(nyf/2)*(nzf/2) does not fit
\* local_int_t, the check localNumberOfRows > 0 fails and construction aborts
\* before any allocation.
C7_OverflowAlwaysCaught ==
    ( /\ pc # "validate"
      /\ ~AnyDimOdd
      /\ ~Representable(w, TrueCoarseRows) ) =>
        pc = "aborted" /\ allocated = {}

\* C7 amended: the check aborts construction, before any allocation, exactly
\* when the product wrapped to the width of local_int_t is not positive; a
\* product that does not fit and wraps to a positive value passes the check.
C7_NonPositiveWrapCaught ==
    ( pc # "validate" /\ ~AnyDimOdd ) =>
        /\ (pc = "aborted") <=> (ToLocal(w, TrueCoarseRows) <= 0)
        /\ pc = "aborted" => allocated = {} /\ ~AfAc /\ ~AfMgData

C7_Witness ==
    /\ pc = "aborted"
    /\ ~AnyDimOdd
    /\ ~Representable(w, TrueCoarseRows)
    /\ ToLocal(w, TrueCoarseRows) = 0
    /\ allocated = {}

\* GenerateCoarseProblem has handed the coarse geometry to GenerateGeometry.
GeometryDerived == pc \in {"returned", "prolonged"}

\* C9 as stated: for every fine level that passes the validation, the coarse
\* z block sizes are exactly half of the fine ones when pz > 0, and 0 when
\* pz = 0.
C9_PartzExactHalves ==
    GeometryDerived =>
        IF pz > 0
        THEN 2 * zlc = partz_nz[1] /\ 2 * zuc = partz_nz[2]
        ELSE zlc = 0 /\ zuc = 0

\* C9 amended: when pz > 0 the coarse z block sizes are the fine ones halved
\* and rounded down: exactly half for a block of even size (as is the block of
\* size nz, which the validation covers), one less than half the size
\* otherwise; they are 0 when pz = 0.
C9_PartzHalvedRoundedDown ==
    GeometryDerived =>
        /\ geomc.zl = zlc /\ geomc.zu = zuc
        /\ IF pz > 0
           THEN \A k \in {1, 2} :
                  LET half == IF k = 1 THEN zlc ELSE zuc
                  IN  /\ partz_nz[k] % 2 = 0 => 2 * half = partz_nz[k]
                      /\ partz_nz[k] % 2 = 1 => 2 * half = partz_nz[k] - 1
                      /\ partz_nz[k] = nzf => half = nzc
           ELSE zlc = 0 /\ zuc = 0

C9_Witness ==
    /\ GeometryDerived
    /\ pz > 0
    /\ partz_nz[1] = nzf
    /\ partz_nz[2] % 2 = 1
    /\ zlc = nzc
    /\ 2 * zuc = partz_nz[2] - 1

\* C10: for even fine dimensions whose products fit local_int_t every array
\* access of the two kernels is in bounds: a fill thread stores into
\* f2cOperator within [0, nxc*nyc*nzc) and into c2fOperator within
\* [0, nxf*nyf*nzf); prolongation threads with index >= size access nothing,
\* and every f2cOperator[i] used to index perm_fine is within [0, nxf*nyf*nzf).
C10_InBounds ==
    ( ~AnyDimOdd /\ Representable(w, FineCells) ) =>
        /\ ~oob
        /\ dev = "ok"
        /\ \A u \in fillPending :
             /\ CurrentCoarseRow(u[1], u[2], u[3]) \in 0 .. (CoarseCells - 1)
             /\ CurrentCoarseRow(u[1], u[2], u[3]) \in DOMAIN f2cOperator
             /\ CurrentFineRow(u[1], u[2], u[3]) \in 0 .. (FineCells - 1)
             /\ CurrentFineRow(u[1], u[2], u[3]) \in DOMAIN c2fOperator
        /\ \A i \in proPending :
             /\ i < rcLength
             /\ i \in DOMAIN f2cOperator
             /\ fillPending = {} =>
                  /\ f2cOperator[i] \in 0 .. (FineCells - 1)
                  /\ f2cOperator[i] \in DOMAIN perm_fine
                  /\ perm_fine[f2cOperator[i]] \in DOMAIN xf
             /\ i \in DOMAIN perm_coarse
             /\ perm_coarse[i] \in DOMAIN xc
        /\ \A i \in DOMAIN proRegs : proRegs[i].pos \in DOMAIN xf

C10_Witness ==
    /\ ProlongCompleted
    /\ ~AnyDimOdd
    /\ Representable(w, FineCells)
    /\ rcLength = 6
    /\ ~oob

====
